---- MODULE Spec2Model ----
(***************************************************************************)
(* Model of robusta's Prometheus alert model                                *)
(* (src/robusta/integrations/prometheus/models.py) and of the bash          *)
(* enrichment playbooks (playbooks/bash_enrichments.py).                    *)
(*                                                                         *)
(* Python values are tagged records [kind, v]; an exception leaving a       *)
(* function is the value Raise(<exception class>).  The text handled by     *)
(* re.sub is a sequence of one-character strings, so that the regular       *)
(* expression is matched character by character.                            *)
(***************************************************************************)
EXTENDS Integers, Sequences, FiniteSets, TLC

VARIABLES
    alert,          \* PrometheusKubernetesAlert.alert (a parsed PrometheusAlert)
    alert_name,     \* PrometheusKubernetesAlert.alert_name
    pod, job, deployment, daemonset, node,   \* the event's resource references
    ret,            \* the last method call on the event and what it returned
    again,          \* get_description applied to its own earlier result
    payload,        \* the raw webhook document handed to AlertManagerEvent
    parsed,         \* what AlertManagerEvent(**payload) produced
    pod_event,      \* the PodEvent given to pod_bash_enricher
    node_event,     \* the NodeEvent given to node_bash_enricher
    calls,          \* external calls made by the playbooks, in order
    runs            \* the playbook actions triggered so far, in order

vars == <<alert, alert_name, pod, job, deployment, daemonset, node, ret, again,
          payload, parsed, pod_event, node_event, calls, runs>>

findingVars == <<alert, alert_name, pod, job, deployment, daemonset, node, ret, again>>
parseVars == <<payload, parsed>>
enrichVars == <<pod_event, node_event, calls, runs>>

-----------------------------------------------------------------------------
(* Python values *)

Absent == [kind |-> "absent"]          \* the key is not in the dict
PyNone == [kind |-> "none"]
PyStr(s) == [kind |-> "str", v |-> s]
PyInt(n) == [kind |-> "int", v |-> n]
PyList(s) == [kind |-> "list", v |-> s]
PyDict(d) == [kind |-> "dict", v |-> d]
Raise(exc) == [kind |-> "raise", v |-> exc]

\* dict.get(key, default): the stored value, or the default for a missing key
DictGet(d, key, default) == IF d[key].kind = "absent" THEN default ELSE d[key]

\* bool(x) as used by `if x:`
Truthy(x) ==
    CASE x.kind = "str"  -> Len(x.v) > 0
      [] x.kind = "int"  -> x.v # 0
      [] x.kind = "list" -> Len(x.v) > 0
      [] x.kind = "dict" -> Len(x.v) > 0
      [] OTHER           -> FALSE

\* the text an f-string puts for {x}
Format(x) ==
    CASE x.kind = "str"  -> x.v
      [] x.kind = "int"  -> ToString(x.v)
      [] x.kind = "none" -> "None"
      [] OTHER           -> "[...]"

\* hash(x) succeeds: needed of every key looked up in a dict
Hashable(x) == x.kind \notin {"list", "dict"}

-----------------------------------------------------------------------------
(* re.sub(r"LABELS = map\[.*\]$", "", text) *)

NL == "\n"
Literal == <<"L", "A", "B", "E", "L", "S", " ", "=", " ", "m", "a", "p", "[">>

\* the literal prefix "LABELS = map\[" matches at index i
HasLiteralAt(s, i) ==
    /\ i + Len(Literal) - 1 <= Len(s)
    /\ SubSeq(s, i, i + Len(Literal) - 1) = Literal

\* "$" with e the last index consumed: the end of the text, or just before a
\* newline that is the last character of the text
EndAnchor(s, e) == \/ e = Len(s)
                   \/ e = Len(s) - 1 /\ s[Len(s)] = NL

\* the indices at which a match starting at i can end: "\]" at e, ".*" over the
\* characters between the literal and e, none of which may be a newline
MatchEnds(s, i) ==
    {e \in (i + Len(Literal))..Len(s) :
        /\ s[e] = "]"
        /\ \A k \in (i + Len(Literal))..(e - 1) : s[k] # NL
        /\ EndAnchor(s, e)}

MatchesAt(s, i) == HasLiteralAt(s, i) /\ MatchEnds(s, i) # {}

Max(S) == CHOOSE x \in S : \A y \in S : y <= x
Min(S) == CHOOSE x \in S : \A y \in S : x <= y

\* re.sub replaces every non-overlapping match, leftmost first, ".*" greedy
RECURSIVE ReSubFrom(_, _)
ReSubFrom(s, pos) ==
    LET starts == {i \in pos..Len(s) : MatchesAt(s, i)}
    IN  IF starts = {} THEN SubSeq(s, pos, Len(s))
        ELSE LET i == Min(starts)
                 e == Max(MatchEnds(s, i))
             IN  SubSeq(s, pos, i - 1) \o ReSubFrom(s, e + 1)

ReSub(s) == ReSubFrom(s, 1)

-----------------------------------------------------------------------------
(* PrometheusKubernetesAlert *)

\* a faulty variant: the alertname label wins over the summary annotation
get_title_alertname_first(a) ==
    IF Truthy(DictGet(a.labels, "alertname", PyNone))
    THEN a.labels["alertname"]
    ELSE IF Truthy(DictGet(a.annotations, "summary", PyNone))
    THEN PyStr(Format(a.annotations["summary"]))
    ELSE PyStr("")

get_title(a) ==
    LET annotations == a.annotations
    IN  IF Truthy(DictGet(annotations, "summary", PyNone))
        THEN PyStr(Format(annotations["summary"]))
        ELSE DictGet(a.labels, "alertname", PyStr(""))

get_description(a) ==
    LET annotations == a.annotations
    IN  IF Truthy(DictGet(annotations, "description", PyNone))
        THEN IF annotations["description"].kind = "str"
             THEN PyStr(ReSub(annotations["description"].v))
             ELSE Raise("TypeError")    \* re.sub: expected string or bytes-like object
        ELSE PyStr(<<>>)

FindingSubject(name, subject_type, namespace) ==
    [name |-> name, subject_type |-> subject_type, namespace |-> namespace]

\* a faulty variant: the deployment branch placed before the job branch
get_alert_subject_deployment_first(p, j, d, ds, n) ==
    IF p.kind # "none"
    THEN FindingSubject(p.name, "TYPE_POD", p.namespace)
    ELSE IF d.kind # "none"
    THEN FindingSubject(d.name, "TYPE_DEPLOYMENT", d.namespace)
    ELSE IF j.kind # "none"
    THEN FindingSubject(j.name, "TYPE_JOB", j.namespace)
    ELSE IF ds.kind # "none"
    THEN FindingSubject(ds.name, "TYPE_DAEMONSET", ds.namespace)
    ELSE IF n.kind # "none"
    THEN FindingSubject(n.name, "TYPE_NODE", PyNone)
    ELSE FindingSubject(PyNone, "TYPE_NONE", PyNone)

get_alert_subject(p, j, d, ds, n) ==
    IF p.kind # "none"
    THEN FindingSubject(p.name, "TYPE_POD", p.namespace)
    ELSE IF j.kind # "none"
    THEN FindingSubject(j.name, "TYPE_JOB", j.namespace)
    ELSE IF d.kind # "none"
    THEN FindingSubject(d.name, "TYPE_DEPLOYMENT", d.namespace)
    ELSE IF ds.kind # "none"
    THEN FindingSubject(ds.name, "TYPE_DAEMONSET", ds.namespace)
    ELSE IF n.kind # "none"
    THEN FindingSubject(n.name, "TYPE_NODE", PyNone)
    ELSE FindingSubject(PyNone, "TYPE_NONE", PyNone)

FindingSeverity(level) == [kind |-> "FindingSeverity", v |-> level]

SEVERITY_MAP ==
    [critical |-> FindingSeverity("HIGH"),
     error    |-> FindingSeverity("MEDIUM"),
     warning  |-> FindingSeverity("LOW"),
     info     |-> FindingSeverity("INFO")]

\* SEVERITY_MAP.get(self.alert.labels.get("severity"), FindingSeverity.INFO)
severity_of(a) ==
    LET key == DictGet(a.labels, "severity", PyNone)
    IN  IF ~Hashable(key) THEN Raise("TypeError")     \* unhashable type: 'list'
        ELSE IF key.kind = "str" /\ key.v \in DOMAIN SEVERITY_MAP
        THEN SEVERITY_MAP[key.v]
        ELSE FindingSeverity("INFO")

PROMETHEUS == "PROMETHEUS"

\* a faulty variant: the finding is grouped by its title, not by the alert name
create_default_finding_keyed_by_title(a, name, p, j, d, ds, n) ==
    LET description == get_description(a)
        severity    == severity_of(a)
    IN  IF description.kind = "raise" THEN description
        ELSE IF severity.kind = "raise" THEN severity
        ELSE [kind            |-> "Finding",
              title           |-> get_title(a),
              description     |-> description,
              source          |-> PROMETHEUS,
              aggregation_key |-> get_title(a),
              severity        |-> severity,
              subject         |-> get_alert_subject(p, j, d, ds, n)]

\* The keyword arguments of Finding(...) are evaluated in the order written; the
\* first one that raises ends the call.
create_default_finding(a, name, p, j, d, ds, n) ==
    LET alert_subject == get_alert_subject(p, j, d, ds, n)
        title         == get_title(a)
        description   == get_description(a)
        severity      == severity_of(a)
    IN  IF description.kind = "raise" THEN description
        ELSE IF severity.kind = "raise" THEN severity
        ELSE [kind            |-> "Finding",
              title           |-> title,
              description     |-> description,
              source          |-> PROMETHEUS,
              aggregation_key |-> name,
              severity        |-> severity,
              subject         |-> alert_subject]

-----------------------------------------------------------------------------
(* Inputs of the alert model *)

PodCrashed == <<"P", "o", "d", " ", "c", "r", "a", "s", "h", "e", "d", " ">>
SeverityCritical ==
    <<"s", "e", "v", "e", "r", "i", "t", "y", ":", "c", "r", "i", "t", "i", "c", "a", "l">>
\* "Pod crashed LABELS = map[severity:critical]"
PodCrashedWithLabels == PodCrashed \o Literal \o SeverityCritical \o <<"]">>

\* values a Dict[Any, Any] can carry under the key "severity"
SeverityValues ==
    {Absent, PyNone, PyInt(1), PyList(<<"critical">>)}
    \cup {PyStr(s) : s \in {"critical", "error", "warning", "info", "", "fatal", "CRITICAL"}}
SummaryValues == {Absent, PyStr(""), PyStr("Disk full"), PyInt(7)}
AlertnameValues == {Absent, PyStr(""), PyStr("HighCPU")}
DescriptionValues == {Absent, PyStr(PodCrashedWithLabels), PyInt(5)}
AlertNames == {PyStr("HighCPU"), PyStr("TargetDown")}

Alert(severity, alertname, summary, description) ==
    [labels      |-> [severity |-> severity, alertname |-> alertname],
     annotations |-> [summary |-> summary, description |-> description]]

\* a Kubernetes object with its metadata.name and metadata.namespace
Resource(kind, name, namespace) == [kind |-> kind, name |-> name, namespace |-> namespace]
Pods == {PyNone, Resource("Pod", PyStr("p1"), PyStr("ns1"))}
Jobs == {PyNone, Resource("Job", PyStr("j1"), PyStr("ns2"))}
Deployments == {PyNone, Resource("Deployment", PyStr("d1"), PyStr("ns3"))}
DaemonSets == {PyNone, Resource("DaemonSet", PyStr("ds1"), PyStr("ns4"))}
Nodes == {PyNone, Resource("Node", PyStr("n1"), PyNone),
          Resource("Node", PyStr("n1"), PyStr("default"))}

NoCall == [call |-> "none"]
Returned(call, value) == [call |-> call, value |-> value]

IdleFinding ==
    /\ alert = Alert(Absent, Absent, Absent, Absent)
    /\ alert_name = PyNone
    /\ pod = PyNone /\ job = PyNone /\ deployment = PyNone
    /\ daemonset = PyNone /\ node = PyNone
    /\ ret = NoCall /\ again = NoCall
IdleParse == payload = PyNone /\ parsed = NoCall
IdleEnrich == pod_event = PyNone /\ node_event = PyNone /\ calls = <<>> /\ runs = <<>>

\* an event as the alert trigger builds it, before any method is called on it
Init ==
    /\ alert \in {Alert(sv, an, su, de) :
                    sv \in SeverityValues, an \in AlertnameValues,
                    su \in SummaryValues, de \in DescriptionValues}
    /\ alert_name \in AlertNames
    /\ pod \in Pods /\ job \in Jobs /\ deployment \in Deployments
    /\ daemonset \in DaemonSets /\ node \in Nodes
    /\ ret = NoCall /\ again = NoCall
    /\ IdleParse /\ IdleEnrich

CallCreateDefaultFinding ==
    /\ ret = NoCall
    /\ ret' = Returned("create_default_finding",
                       create_default_finding(alert, alert_name, pod, job,
                                              deployment, daemonset, node))
    /\ UNCHANGED <<alert, alert_name, pod, job, deployment, daemonset, node, again>>
    /\ UNCHANGED <<parseVars, enrichVars>>

CallGetTitle ==
    /\ ret = NoCall
    /\ ret' = Returned("get_title", get_title(alert))
    /\ UNCHANGED <<alert, alert_name, pod, job, deployment, daemonset, node, again>>
    /\ UNCHANGED <<parseVars, enrichVars>>

CallGetDescription ==
    /\ ret = NoCall
    /\ ret' = Returned("get_description", get_description(alert))
    /\ UNCHANGED <<alert, alert_name, pod, job, deployment, daemonset, node, again>>
    /\ UNCHANGED <<parseVars, enrichVars>>

Next == CallCreateDefaultFinding \/ CallGetTitle \/ CallGetDescription

Spec == Init /\ [][Next]_vars

-----------------------------------------------------------------------------
(* Description texts: every concatenation of at most MaxSegs segments *)

MaxSegs == 5
Segments == {Literal, <<"]">>, <<"[">>, <<NL>>, <<"a">>}

RECURSIVE Texts(_)
Texts(n) ==
    IF n = 0 THEN {<<>>}
    ELSE LET shorter == Texts(n - 1)
         IN  shorter \cup {t \o g : t \in shorter, g \in Segments}

DescriptionTexts == Texts(MaxSegs) \cup {PodCrashedWithLabels, PodCrashed}

InitDescription ==
    /\ alert \in {Alert(Absent, Absent, Absent, de) :
                    de \in {Absent} \cup {PyStr(t) : t \in DescriptionTexts}}
    /\ alert_name = PyStr("HighCPU")
    /\ pod = PyNone /\ job = PyNone /\ deployment = PyNone
    /\ daemonset = PyNone /\ node = PyNone
    /\ ret = NoCall /\ again = NoCall
    /\ IdleParse /\ IdleEnrich

\* get_description on an alert whose description is an earlier result of it
CallGetDescriptionAgain ==
    /\ ret.call = "get_description"
    /\ ret.value.kind = "str"
    /\ again = NoCall
    /\ again' = Returned("get_description",
                         get_description([alert EXCEPT !.annotations.description = ret.value]))
    /\ UNCHANGED <<alert, alert_name, pod, job, deployment, daemonset, node, ret>>
    /\ UNCHANGED <<parseVars, enrichVars>>

NextDescription == CallGetDescription \/ CallGetDescriptionAgain

SpecDescription == InitDescription /\ [][NextDescription]_vars

-----------------------------------------------------------------------------
(* Parsing the webhook document: the pydantic models                        *)
(*                                                                         *)
(* A field annotated `str` goes through pydantic's str validator.  Given a  *)
(* number, pydantic 1.x turns it into its text and pydantic 2.x rejects it; *)
(* the source pins neither, so `lax` is chosen by the environment.  A       *)
(* field without a default is required, and None is refused for it.  An     *)
(* Optional field accepts None and keeps it.  endsAt, startsAt,             *)
(* generatorURL, labels and annotations of an alert are validated like      *)
(* status and are taken to be well formed.                                  *)

ValidationError == Raise("ValidationError")

str_validator(v, lax) ==
    CASE v.kind = "str"         -> v
      [] v.kind = "int" /\ lax  -> PyStr(ToString(v.v))
      [] OTHER                  -> ValidationError

\* name: str
RequiredStr(v, lax) ==
    IF v = Absent \/ v = PyNone THEN ValidationError ELSE str_validator(v, lax)

\* name: Optional[str] = default
OptionalStr(v, default, lax) ==
    IF v = Absent THEN default
    ELSE IF v = PyNone THEN PyNone
    ELSE str_validator(v, lax)

\* name: Optional[Dict[Any, Any]] = None
OptionalDict(v) ==
    IF v = Absent THEN PyNone
    ELSE IF v = PyNone THEN PyNone
    ELSE IF v.kind = "dict" THEN v
    ELSE ValidationError

\* a faulty variant: the fingerprint defaults to None
PrometheusAlert_default_none(doc, lax) ==
    LET fingerprint == OptionalStr(doc.fingerprint, PyNone, lax)
        status      == RequiredStr(doc.status, lax)
    IN  IF fingerprint.kind = "raise" \/ status.kind = "raise"
        THEN ValidationError
        ELSE [kind |-> "PrometheusAlert", fingerprint |-> fingerprint, status |-> status]

PrometheusAlert(doc, lax) ==
    LET fingerprint == OptionalStr(doc.fingerprint, PyStr(""), lax)
        status      == RequiredStr(doc.status, lax)
    IN  IF fingerprint.kind = "raise" \/ status.kind = "raise"
        THEN ValidationError
        ELSE [kind |-> "PrometheusAlert", fingerprint |-> fingerprint, status |-> status]

\* alerts: List[PrometheusAlert] = []
AlertList(v, lax) ==
    IF v = Absent THEN PyList(<<>>)
    ELSE IF v.kind # "list" THEN ValidationError
    ELSE LET items == [i \in 1..Len(v.v) |-> PrometheusAlert(v.v[i], lax)]
         IN  IF \E i \in 1..Len(items) : items[i].kind = "raise"
             THEN ValidationError
             ELSE PyList(items)

RequiredFields == {"externalURL", "groupKey", "version", "receiver", "status"}
OptionalDictFields == {"commonAnnotations", "commonLabels", "groupLabels"}

\* a faulty variant: receiver is not required, a missing one becomes ""
AlertManagerEvent_optional_receiver(doc, lax) ==
    LET alerts == AlertList(doc.alerts, lax)
        strs   == [f \in RequiredFields |->
                     IF f = "receiver" THEN OptionalStr(doc[f], PyStr(""), lax)
                     ELSE RequiredStr(doc[f], lax)]
        dicts  == [f \in OptionalDictFields |-> OptionalDict(doc[f])]
    IN  IF \/ alerts.kind = "raise"
           \/ \E f \in RequiredFields : strs[f].kind = "raise"
           \/ \E f \in OptionalDictFields : dicts[f].kind = "raise"
        THEN ValidationError
        ELSE [kind |-> "AlertManagerEvent", alerts |-> alerts,
              externalURL |-> strs["externalURL"], groupKey |-> strs["groupKey"],
              version |-> strs["version"],
              commonAnnotations |-> dicts["commonAnnotations"],
              commonLabels |-> dicts["commonLabels"],
              groupLabels |-> dicts["groupLabels"],
              receiver |-> strs["receiver"], status |-> strs["status"]]

AlertManagerEvent(doc, lax) ==
    LET alerts == AlertList(doc.alerts, lax)
        strs   == [f \in RequiredFields |-> RequiredStr(doc[f], lax)]
        dicts  == [f \in OptionalDictFields |-> OptionalDict(doc[f])]
    IN  IF \/ alerts.kind = "raise"
           \/ \E f \in RequiredFields : strs[f].kind = "raise"
           \/ \E f \in OptionalDictFields : dicts[f].kind = "raise"
        THEN ValidationError
        ELSE [kind |-> "AlertManagerEvent", alerts |-> alerts,
              externalURL |-> strs["externalURL"], groupKey |-> strs["groupKey"],
              version |-> strs["version"],
              commonAnnotations |-> dicts["commonAnnotations"],
              commonLabels |-> dicts["commonLabels"],
              groupLabels |-> dicts["groupLabels"],
              receiver |-> strs["receiver"], status |-> strs["status"]]

\* what a JSON document can hold where a string is expected
JsonForStr(text) == {Absent, PyNone, PyStr(text), PyInt(4), PyList(<<>>)}
SomeDict == PyDict(<<"k">>)

AlertDocs ==
    {[fingerprint |-> fp, status |-> PyStr("firing")] :
        fp \in {Absent, PyNone, PyStr("fp1"), PyInt(9), PyList(<<>>)}}
    \cup {[fingerprint |-> Absent, status |-> Absent]}

Payloads ==
    [externalURL       : JsonForStr("http://alertmanager"),
     groupKey          : JsonForStr("{}:{}"),
     version           : JsonForStr("4"),
     receiver          : JsonForStr("robusta"),
     status            : JsonForStr("firing"),
     commonAnnotations : {Absent, PyNone, SomeDict},
     commonLabels      : {Absent, SomeDict},
     groupLabels       : {Absent, SomeDict},
     alerts            : {Absent, PyList(<<>>)} \cup {PyList(<<d>>) : d \in AlertDocs}]

InitParse ==
    /\ payload \in Payloads
    /\ parsed = NoCall
    /\ IdleFinding /\ IdleEnrich

ParseAlertManagerEvent ==
    /\ parsed = NoCall
    /\ \E lax \in BOOLEAN :
          parsed' = Returned("AlertManagerEvent", AlertManagerEvent(payload, lax))
    /\ UNCHANGED <<payload, findingVars, enrichVars>>

NextParse == ParseAlertManagerEvent

SpecParse == InitParse /\ [][NextParse]_vars

-----------------------------------------------------------------------------
(* playbooks/bash_enrichments.py *)

MaxRuns == 3
Commands == {"ls -l", "df -h"}
Outputs == {"", "total 0"}

MarkdownBlock(text) == [block |-> "MarkdownBlock", text |-> text]
Call(fn, args) == [fn |-> fn, args |-> args]
Header(bash_command) == MarkdownBlock("Command results for *" \o bash_command \o ":*")

\* event.add_enrichment(block_list)
add_enrichment(event, block_list) ==
    [event EXCEPT !.enrichments = Append(@, block_list)]

\* a faulty variant: the check for a missing pod is left out
pod_bash_enricher_unchecked(event, bash_command, exec_result) ==
    LET block_list == <<Header(bash_command), MarkdownBlock(exec_result)>>
    IN  [event |-> add_enrichment(event, block_list),
         calls |-> <<Call("pod.exec", <<bash_command>>),
                     Call("event.add_enrichment", block_list)>>]

\* The action's effect: the event afterwards and the external calls it made, in
\* order.  exec_result is what pod.exec returned.
pod_bash_enricher(event, bash_command, exec_result) ==
    IF event.pod = PyNone
    THEN [event |-> event,
          calls |-> <<Call("logging.error", <<"cannot run PodBashEnricher on event with no pod">>)>>]
    ELSE LET block_list == <<Header(bash_command), MarkdownBlock(exec_result)>>
         IN  [event |-> add_enrichment(event, block_list),
              calls |-> <<Call("pod.exec", <<bash_command>>),
                          Call("event.add_enrichment", block_list)>>]

\* exec_result is what RobustaPod.exec_in_debugger_pod returned
node_bash_enricher(event, bash_command, exec_result) ==
    IF event.node = PyNone
    THEN [event |-> event,
          calls |-> <<Call("logging.error", <<"cannot run NodeBashEnricher on event with no node">>)>>]
    ELSE LET block_list == <<Header(bash_command), MarkdownBlock(exec_result)>>
         IN  [event |-> add_enrichment(event, block_list),
              calls |-> <<Call("RobustaPod.exec_in_debugger_pod",
                               <<"node-bash-pod", event.node.name.v, bash_command>>),
                          Call("event.add_enrichment", block_list)>>]

InitEnrich ==
    /\ pod_event \in {[pod |-> p, enrichments |-> <<>>] : p \in Pods}
    /\ node_event \in {[node |-> n, enrichments |-> <<>>] : n \in Nodes}
    /\ calls = <<>>
    /\ runs = <<>>
    /\ IdleFinding /\ IdleParse

PodBashEnricher ==
    /\ Len(runs) < MaxRuns
    /\ \E bash_command \in Commands, exec_result \in Outputs :
          LET done == pod_bash_enricher(pod_event, bash_command, exec_result)
          IN  /\ pod_event' = done.event
              /\ calls' = calls \o done.calls
              /\ runs' = Append(runs, [action |-> "pod_bash_enricher",
                                       bash_command |-> bash_command,
                                       exec_result |-> exec_result])
    /\ UNCHANGED <<node_event, findingVars, parseVars>>

NodeBashEnricher ==
    /\ Len(runs) < MaxRuns
    /\ \E bash_command \in Commands, exec_result \in Outputs :
          LET done == node_bash_enricher(node_event, bash_command, exec_result)
          IN  /\ node_event' = done.event
              /\ calls' = calls \o done.calls
              /\ runs' = Append(runs, [action |-> "node_bash_enricher",
                                       bash_command |-> bash_command,
                                       exec_result |-> exec_result])
    /\ UNCHANGED <<pod_event, findingVars, parseVars>>

NextEnrich == PodBashEnricher \/ NodeBashEnricher

SpecEnrich == InitEnrich /\ [][NextEnrich]_vars

-----------------------------------------------------------------------------
(* Properties of create_default_finding, get_title and get_description      *)
(* (checked under Spec)                                                     *)

Refs == <<pod, job, deployment, daemonset, node>>
SubjectTypes == <<"TYPE_POD", "TYPE_JOB", "TYPE_DEPLOYMENT", "TYPE_DAEMONSET", "TYPE_NODE">>
ReturnedFinding == ret.call = "create_default_finding" /\ ret.value.kind = "Finding"

\* C1: the subject of every finding is taken from the first present reference
\* in the order pod, job, deployment, daemonset, node: its kind, its metadata
\* name and its metadata namespace (no namespace for a node); the references
\* after it play no part; with no reference the subject is TYPE_NONE with no
\* name and no namespace.
C1_SubjectPriority ==
    ReturnedFinding =>
        LET present == {i \in 1..5 : Refs[i] # PyNone}
            subject == ret.value.subject
        IN  IF present = {}
            THEN subject = [name |-> PyNone, subject_type |-> "TYPE_NONE",
                            namespace |-> PyNone]
            ELSE LET first == Min(present)
                 IN  /\ subject.subject_type = SubjectTypes[first]
                     /\ subject.name = Refs[first].name
                     /\ subject.namespace =
                            IF first = 5 THEN PyNone ELSE Refs[first].namespace

\* a finding for an event holding pod p1/ns1 and also a node
C1_Witness ==
    /\ ReturnedFinding
    /\ pod # PyNone /\ node # PyNone
    /\ ret.value.subject = [name |-> PyStr("p1"), subject_type |-> "TYPE_POD",
                            namespace |-> PyStr("ns1")]

ExpectedLevel(label) ==
    CASE label = PyStr("critical") -> "HIGH"
      [] label = PyStr("error")    -> "MEDIUM"
      [] label = PyStr("warning")  -> "LOW"
      [] OTHER                     -> "INFO"

\* C2: whatever the "severity" label holds, the finding gets a severity and no
\* error occurs: HIGH for "critical", MEDIUM for "error", LOW for "warning",
\* INFO for "info" and for every other value, the empty string and a missing
\* label included.  (Stated for alerts whose description is text or missing,
\* so that only the severity lookup can fail.)
C2_SeverityTotal ==
    (ret.call = "create_default_finding" /\ alert.annotations.description.kind # "int") =>
        /\ ret.value.kind = "Finding"
        /\ ret.value.severity = FindingSeverity(ExpectedLevel(alert.labels.severity))

\* C3: get_title returns a non-empty "summary" text as it is, whatever the
\* "alertname" label holds; with the summary missing or empty it returns the
\* "alertname" label, and "" when that label is missing too.
C3_Title ==
    ret.call = "get_title" =>
        LET summary   == alert.annotations.summary
            alertname == alert.labels.alertname
        IN  /\ (summary.kind = "str" /\ summary.v # "") => ret.value = summary
            /\ (summary = Absent \/ summary = PyStr("")) =>
                   ret.value = IF alertname = Absent THEN PyStr("") ELSE alertname

\* the summary "Disk full" returned although the alertname label is "HighCPU"
C3_Witness ==
    /\ ret.call = "get_title"
    /\ alert.annotations.summary = PyStr("Disk full")
    /\ alert.labels.alertname = PyStr("HighCPU")
    /\ ret.value = PyStr("Disk full")

\* C6: every call of create_default_finding, get_title or get_description
\* returns; none raises, whatever the labels and annotations hold and
\* whichever references are set.
C6_NeverRaises == ret # NoCall => ret.value.kind # "raise"

\* C9: every finding carries the event's alert_name as its aggregation key,
\* whatever its title, labels and annotations, and PROMETHEUS as its source.
C9_AggregationKeyAndSource ==
    ReturnedFinding =>
        /\ ret.value.aggregation_key = alert_name
        /\ ret.value.source = "PROMETHEUS"

\* a finding whose title and alertname label both differ from the alert name
C9_Witness ==
    /\ ReturnedFinding
    /\ alert_name = PyStr("TargetDown")
    /\ alert.labels.alertname = PyStr("HighCPU")
    /\ ret.value.title = PyStr("Disk full")
    /\ ret.value.aggregation_key = PyStr("TargetDown")

-----------------------------------------------------------------------------
(* Properties of the description clean-up (checked under SpecDescription)   *)

\* where a trailing "LABELS = map[...]" of the text s can start
TrailingLabelsStarts(s) ==
    {i \in 1..Len(s) :
        /\ HasLiteralAt(s, i)
        /\ i + Len(Literal) <= Len(s)
        /\ s[Len(s)] = "]"}

\* C4: get_description returns the description without its trailing
\* "LABELS = map[...]" and with everything before that kept; a description
\* that does not end in "LABELS = map[...]" is returned as it is; a missing
\* description gives the empty text.
C4_TrailingLabelsRemoved ==
    ret.call = "get_description" =>
        LET d == alert.annotations.description
        IN  IF d = Absent THEN ret.value = PyStr(<<>>)
            ELSE IF TrailingLabelsStarts(d.v) = {} THEN ret.value = d
            ELSE \E i \in TrailingLabelsStarts(d.v) :
                     ret.value = PyStr(SubSeq(d.v, 1, i - 1))

\* C5: cleaning a cleaned description changes nothing.
C5_Idempotent == again # NoCall => again.value = ret.value

-----------------------------------------------------------------------------
(* Properties of parsing (checked under SpecParse)                          *)

ParsedEvent == parsed # NoCall /\ parsed.value.kind = "AlertManagerEvent"
RequiredAllStr == \A f \in RequiredFields : payload[f].kind = "str"
AlertDocsWellFormed ==
    payload.alerts # Absent =>
        \A i \in 1..Len(payload.alerts.v) :
            /\ payload.alerts.v[i].status.kind = "str"
            /\ payload.alerts.v[i].fingerprint.kind \in {"absent", "none", "str"}

\* a missing optional mapping is None, a missing fingerprint is ""
DefaultsTaken ==
    /\ \A f \in OptionalDictFields : payload[f] = Absent => parsed.value[f] = PyNone
    /\ payload.alerts # Absent =>
           \A i \in 1..Len(payload.alerts.v) :
               payload.alerts.v[i].fingerprint = Absent =>
                   parsed.value.alerts.v[i].fingerprint = PyStr("")

AbsentOptionalsAreHarmless ==
    (RequiredAllStr /\ AlertDocsWellFormed) => (ParsedEvent /\ DefaultsTaken)

\* C7 as claimed: parsing fails whenever one of externalURL, groupKey,
\* version, receiver, status is missing or is not a string; with those five
\* strings, missing optional mappings and a missing fingerprint never make it
\* fail and take their defaults.
C7_FailsOnMissingOrMistyped ==
    parsed # NoCall =>
        /\ ~RequiredAllStr => parsed.value = ValidationError
        /\ AbsentOptionalsAreHarmless

\* C7: parsing fails whenever one of externalURL, groupKey, version, receiver,
\* status is missing, null or an array; a number there either fails too or is
\* taken as its decimal text; with those five strings, missing optional
\* mappings and a missing fingerprint never make it fail and take their
\* defaults (None for the mappings, "" for the fingerprint).
C7_FailsOnMissingOrUnconvertible ==
    parsed # NoCall =>
        /\ (\E f \in RequiredFields : payload[f].kind \in {"absent", "none", "list"}) =>
               parsed.value = ValidationError
        /\ ParsedEvent =>
               \A f \in RequiredFields :
                   payload[f].kind = "int" => parsed.value[f] = PyStr(ToString(payload[f].v))
        /\ AbsentOptionalsAreHarmless

\* a document with none of the optional mappings and an alert without a
\* fingerprint, parsed into an event
C7_Witness ==
    /\ ParsedEvent
    /\ \A f \in OptionalDictFields : payload[f] = Absent /\ parsed.value[f] = PyNone
    /\ payload.alerts # Absent /\ Len(payload.alerts.v) = 1
    /\ payload.alerts.v[1].fingerprint = Absent
    /\ parsed.value.alerts.v[1].fingerprint = PyStr("")

\* C8 as claimed: every parsed alert has a string fingerprint, "" when the
\* document gives none, be it left out or null.
C8_FingerprintNeverNull ==
    ParsedEvent =>
        \A i \in 1..Len(parsed.value.alerts.v) :
            LET given == payload.alerts.v[i].fingerprint
                fingerprint == parsed.value.alerts.v[i].fingerprint
            IN  /\ fingerprint.kind = "str"
                /\ (given = Absent \/ given = PyNone) => fingerprint = PyStr("")

\* C8: every parsed alert has a fingerprint that is a string or None: "" when
\* the document leaves it out, None exactly when the document gives null.
C8_FingerprintDefault ==
    ParsedEvent =>
        \A i \in 1..Len(parsed.value.alerts.v) :
            LET given == payload.alerts.v[i].fingerprint
                fingerprint == parsed.value.alerts.v[i].fingerprint
            IN  /\ fingerprint.kind \in {"str", "none"}
                /\ given = Absent => fingerprint = PyStr("")
                /\ fingerprint = PyNone <=> given = PyNone

\* an alert without a fingerprint, parsed with fingerprint ""
C8_Witness ==
    /\ ParsedEvent
    /\ Len(parsed.value.alerts.v) = 1
    /\ payload.alerts.v[1].fingerprint = Absent
    /\ parsed.value.alerts.v[1].fingerprint = PyStr("")
    /\ payload.commonAnnotations = SomeDict

-----------------------------------------------------------------------------
(* Properties of the bash enrichers (checked under SpecEnrich)              *)

ExecFns == {"pod.exec", "RobustaPod.exec_in_debugger_pod"}

\* C10: a run of pod_bash_enricher (node_bash_enricher) on an event without
\* pod (node) only logs an error: no command is executed and the event's
\* enrichments stay as they were; on an event with the target it executes the
\* configured command once and then adds one enrichment of two blocks, the
\* header naming the command followed by the command's output.
C10_EnricherEffects ==
    [][Len(runs') = Len(runs) + 1 =>
        LET run    == runs'[Len(runs')]
            made   == SubSeq(calls', Len(calls) + 1, Len(calls'))
            onPod  == run.action = "pod_bash_enricher"
            target == IF onPod THEN pod_event.pod ELSE node_event.node
            before == IF onPod THEN pod_event.enrichments ELSE node_event.enrichments
            after  == IF onPod THEN pod_event'.enrichments ELSE node_event'.enrichments
            execs  == {i \in 1..Len(made) : made[i].fn \in ExecFns}
        IN  IF target = PyNone
            THEN /\ execs = {}
                 /\ after = before
                 /\ Len(made) = 1 /\ made[1].fn = "logging.error"
            ELSE /\ Len(made) = 2 /\ execs = {1}
                 /\ made[1].args[Len(made[1].args)] = run.bash_command
                 /\ made[2].fn = "event.add_enrichment"
                 /\ after = Append(before,
                        <<MarkdownBlock("Command results for *" \o run.bash_command \o ":*"),
                          MarkdownBlock(run.exec_result)>>)
      ]_vars

\* pod_bash_enricher has run on an event with a pod, node_bash_enricher on an
\* event without node: one command executed, one enrichment, one error logged
C10_Witness ==
    /\ Len(runs) = 2
    /\ runs[1].action = "pod_bash_enricher" /\ runs[2].action = "node_bash_enricher"
    /\ pod_event.pod # PyNone /\ node_event.node = PyNone
    /\ Len(pod_event.enrichments) = 1 /\ Len(pod_event.enrichments[1]) = 2
    /\ node_event.enrichments = <<>>
    /\ Len(calls) = 3
    /\ calls[1].fn = "pod.exec" /\ calls[3].fn = "logging.error"

====
